---- MODULE Spec2Model ----
(***************************************************************************)
(* Model of srai's PbfFileDownloader (loaders/osm_loaders/                 *)
(* pbf_file_downloader.py) and of the geometry helpers it calls            *)
(* (utils/geometry.py).                                                    *)
(*                                                                         *)
(* The program is sequential: one pc walks the orchestrator loop, the      *)
(* buffer loop of simplify_polygon_with_buffer, the tolerance ladder of    *)
(* simplify_polygon, the submission loop of _send_first_request and the    *)
(* poll loop.  Geometry is abstracted to one axis: a polygon is the extent *)
(* [lo, hi] of its exterior ring in units of 50 meters, the number of      *)
(* points of that ring and the number of its interior rings.  What         *)
(* shapely, topojson and the remote service answer is the environment and  *)
(* is drawn from small sets.                                               *)
(***************************************************************************)
EXTENDS Integers, Sequences, FiniteSets, TLC

VARIABLES
    \* PbfFileDownloader fields and the file system
    source, download_directory, files,
    \* _download_pbf_files_for_polygons_from_existing_extracts
    extracts, extract_idx,
    \* _download_pbf_files_for_polygons_from_protomaps
    regions_gdf, row_idx, polygons, paths, regions_mapping,
    \* _download_pbf_file_for_polygon_from_protomaps
    pc, polygon, geometry_hash, boundary_polygon, extraction_uuid,
    status_check_url,
    status_complete, cells_total, nodes_total, elems_total,
    cells_prog, nodes_prog, elems_prog, pbar,
    \* simplify_polygon_with_buffer and simplify_polygon
    is_fully_covered, buffer_size_meters, closed_polygon,
    buffered_polygon, simplified_polygon, tolerance_idx,
    \* the iterations of the buffer loop the current call has begun
    iteration,
    \* _send_first_request
    session, request_payload, start_extract_result,
    \* what the current call has done so far: HTTP requests by kind, seconds
    \* slept in the cooldown, warnings issued, answers to its job-start POSTs
    http, cooldown, warned, answers,
    \* whether a status answer of the current job has reported a total
    \* below the one tracked
    reported_less,
    \* what the run has asked of the extract catalog and of download_file
    \* for its extracts
    catalog_queries, requested

vars == <<source, extracts, extract_idx, iteration, reported_less,
          catalog_queries, requested, download_directory, files, regions_gdf, row_idx, polygons, paths,
          regions_mapping, pc, polygon, geometry_hash, boundary_polygon,
          extraction_uuid, status_check_url, status_complete, cells_total, nodes_total,
          elems_total, cells_prog, nodes_prog, elems_prog, pbar,
          is_fully_covered, buffer_size_meters, closed_polygon,
          buffered_polygon, simplified_polygon, tolerance_idx, session,
          request_payload, start_extract_result, http, cooldown, warned,
          answers>>

-----------------------------------------------------------------------------
\* Bounds of the model.

\* Rate-limited answers one submission may receive.
MaxRateLimited == 2
\* Iterations of the buffer loop that may raise.
MaxRaisingIters == 2
\* Status polls of one job that may come back incomplete.
MaxIncompletePolls == 2

-----------------------------------------------------------------------------
\* Program constants.

\* geometry.py: the exterior ring may hold up to 1000 points.
PointLimit == 1000
\* geometry.py: len(SIMPLIFICATION_TOLERANCE_VALUES).
NumTolerances == 18
\* geometry.py: buffer_size_meters starts at 50 and grows by 50.
BufferStep == 50
\* pbf_file_downloader.py: sleep(300) after a rate-limited answer.
CooldownSeconds == 300
\* Points of the closed ring of a rectangle.
RectanglePoints == 5

None == "None"
\* An absent number: .get(key, None) of a missing key; the total of a new tqdm().
NoNumber == -1

-----------------------------------------------------------------------------
\* Geometry (utils/geometry.py) on the one-axis abstraction.

Poly(lo, hi, npts, interiors) ==
    [lo |-> lo, hi |-> hi, npts |-> npts, interiors |-> interiors]

\* The value of a name that is not bound yet.
NoPolygon == Poly(0, 0, 0, 0)

Single(p) == [kind |-> "single", poly |-> p, geoms |-> <<>>]
Multi(gs) == [kind |-> "multi", poly |-> NoPolygon, geoms |-> gs]

RECURSIVE flatten_geometry(_)
RECURSIVE FlattenAll(_)
\* seq([...]).flatten().to_list(): the concatenation, in order.
FlattenAll(gs) ==
    IF gs = <<>> THEN <<>>
    ELSE flatten_geometry(Head(gs)) \o FlattenAll(Tail(gs))

flatten_geometry(geometry) ==
    IF geometry.kind = "multi"
    THEN FlattenAll(geometry.geoms)
    ELSE <<geometry.poly>>

\* Polygon(list(polygon.exterior.coords)) when the polygon has holes.
remove_interiors(p) ==
    IF p.interiors > 0 THEN Poly(p.lo, p.hi, p.npts, 0) ELSE p

\* The planar buffer moves the exterior ring outwards by the radius; the
\* points of the new ring are shapely's choice (npts).
buffer_geometry(p, meters, npts) ==
    Poly(p.lo - meters \div BufferStep, p.hi + meters \div BufferStep,
         npts, p.interiors)

\* a.covered_by(b): every point of a lies in b.
covered_by(a, b) ==
    /\ b.lo <= b.hi
    /\ b.lo <= a.lo
    /\ a.hi <= b.hi
    /\ b.interiors = 0

\* One rung of the ladder: tp.Topology(polygon, toposimplify=tolerance),
\* make_valid.  The simplified ring may cut `shrink` into the polygon.
Toposimplify(p, shrink, npts) ==
    Poly(p.lo + shrink, p.hi - shrink, npts, p.interiors)

\* polygon.convex_hull and polygon.minimum_rotated_rectangle contain the
\* polygon and have no holes.
convex_hull(p, npts) == Poly(p.lo, p.hi, npts, 0)
minimum_rotated_rectangle(p) == Poly(p.lo, p.hi, RectanglePoints, 0)

\* if len(simplified_polygon.exterior.coords) < 1000: break
LadderBreaks(p) == p.npts < PointLimit

\* Mutation: the chain of fallbacks without the bounding rectangle.
FallbacksHullOnly(simplified, p, hull_npts) ==
    IF simplified.npts > PointLimit
    THEN convex_hull(p, hull_npts)
    ELSE simplified

\* The two fallbacks after the ladder (geometry.py 164-170).
Fallbacks(simplified, p, hull_npts) ==
    LET after_hull == IF simplified.npts > PointLimit
                      THEN convex_hull(p, hull_npts)
                      ELSE simplified
    IN  IF after_hull.npts > PointLimit
        THEN minimum_rotated_rectangle(p)
        ELSE after_hull

\* mapping(boundary_polygon): the GeoJSON of the polygon.
mapping(p) ==
    [type |-> "Polygon",
     coordinates |-> <<p.lo, p.hi>>,
     points |-> p.npts,
     holes |-> p.interiors]

-----------------------------------------------------------------------------
\* The cache key and the cache path (pbf_file_downloader.py).

\* wktlib.dumps(geometry): the text of the rings, in their order.
WktDumps(p) == <<p.lo, p.hi, p.npts, p.interiors>>

RECURSIVE Sha256(_, _)
\* h.update(bytes); h.hexdigest(): a digest folded over the text.
Sha256(h, text) ==
    IF text = <<>> THEN h
    ELSE Sha256((h * 131 + Head(text) + 7) % 1000003, Tail(text))

_get_geometry_hash(geometry) == ToString(Sha256(17, WktDumps(geometry)))

\* Path(self.download_directory).resolve() / f"{stem}.osm.pbf"
PbfFilePath(directory, stem) == <<directory, stem, ".osm.pbf">>

\* The hash the polygon call computes at its first line (line 153).
CallGeometryHash(p) == _get_geometry_hash(p)

-----------------------------------------------------------------------------
\* Inputs: the regions GeoDataFrame handed to the downloader.

PolygonA == Poly(10, 12, 5, 0)
PolygonB == Poly(20, 23, 7, 1)

Row(id, g) == [region_id |-> id, geometry |-> g]

\* Region ids are the index of the frame: no two rows share one.
RegionFrames ==
    { <<>>,
      <<Row("r1", Single(PolygonA))>>,
      <<Row("r1", Multi(<<>>))>>,
      <<Row("r1", Multi(<<Single(PolygonB),
                          Multi(<<Single(PolygonA), Single(PolygonA)>>)>>))>>,
      <<Row("r1", Single(PolygonA)),
        Row("r2", Multi(<<Single(PolygonA), Single(PolygonB)>>))>>,
      <<Row("r1", Multi(<<Single(PolygonB), Single(PolygonA)>>)),
        Row("r2", Multi(<<Single(PolygonA), Single(PolygonB)>>))>>,
      <<Row("r1", Multi(<<>>)), Row("r2", Single(PolygonB))>> }

\* PbfSourceLiteral
Sources == {"protomaps", "geofabrik", "openstreetmap_fr"}

\* A record of the extract catalog.
Extract(id) == [id |-> id, url |-> <<"extracts", id>>]

\* The extracts a catalog knows.
ExtractIds == {"e1", "e2"}

\* What a catalog may answer: an ordered list of distinct records.
CatalogAnswers ==
    { <<>> } \cup { <<Extract(a)>> : a \in ExtractIds }
    \cup { <<Extract(q[1]), Extract(q[2])>> :
             q \in { d \in ExtractIds \X ExtractIds : d[1] # d[2] } }

\* Path(self.download_directory).resolve() / f"{extract.id}.osm.pbf"
ExtractPath(directory, id) == PbfFilePath(directory, id)

\* The extract files a download directory may hold before the run.
ExtractFiles == { ExtractPath("files", id) : id \in ExtractIds }

\* Point counts the libraries may answer with.
BufferedCounts == {2000}
LadderCounts == {999, 1000, 1001}
HullCounts == {1000, 1001}
\* How far a simplified ring may cut into the buffered polygon.
Shrinks == {0, 1, 2}

-----------------------------------------------------------------------------
\* Initial state: a downloader constructed for one of the three sources,
\* download_pbf_files_for_regions_gdf just called with a frame.  The
\* download directory is empty, except that a run over existing extracts
\* may find some of their files there.

NoHttp == [session |-> 0, token_get |-> 0, post |-> 0, status_get |-> 0,
           artifact_get |-> 0]

\* tqdm(): nothing displayed yet.
NewPbar == [n |-> 0, total |-> NoNumber, desc |-> <<>>]

NoGeoJson == [type |-> "", coordinates |-> <<>>, points |-> 0, holes |-> 0]

NoPayload == [region |-> [type |-> "", data |-> NoGeoJson], name |-> None]

NoResult == [status |-> 0, keys |-> {}, errors |-> <<>>]

\* The locals of one polygon call, before the call and after it returned.
CallLocalsCleared ==
    /\ polygon' = NoPolygon
    /\ geometry_hash' = None
    /\ boundary_polygon' = NoPolygon
    /\ extraction_uuid' = None
    /\ status_check_url' = None
    /\ status_complete' = FALSE
    /\ cells_total' = 0
    /\ nodes_total' = 0
    /\ elems_total' = 0
    /\ cells_prog' = NoNumber
    /\ nodes_prog' = NoNumber
    /\ elems_prog' = NoNumber
    /\ pbar' = NewPbar
    /\ is_fully_covered' = FALSE
    /\ buffer_size_meters' = 0
    /\ closed_polygon' = NoPolygon
    /\ buffered_polygon' = NoPolygon
    /\ simplified_polygon' = NoPolygon
    /\ tolerance_idx' = 0
    /\ iteration' = 0
    /\ reported_less' = FALSE
    /\ session' = 0
    /\ request_payload' = NoPayload
    /\ start_extract_result' = NoResult

Init ==
    /\ source \in Sources
    /\ download_directory = "files"
    /\ files \in IF source = "protomaps" THEN {{}} ELSE SUBSET ExtractFiles
    /\ regions_gdf \in RegionFrames
    /\ extracts = <<>>
    /\ extract_idx = 0
    /\ catalog_queries = <<>>
    /\ requested = <<>>
    /\ iteration = 0
    /\ reported_less = FALSE
    /\ row_idx = 0
    /\ polygons = <<>>
    /\ paths = <<>>
    /\ regions_mapping = <<>>
    /\ pc = "dispatch"
    /\ polygon = NoPolygon
    /\ geometry_hash = None
    /\ boundary_polygon = NoPolygon
    /\ extraction_uuid = None
    /\ status_check_url = None
    /\ status_complete = FALSE
    /\ cells_total = 0
    /\ nodes_total = 0
    /\ elems_total = 0
    /\ cells_prog = NoNumber
    /\ nodes_prog = NoNumber
    /\ elems_prog = NoNumber
    /\ pbar = NewPbar
    /\ is_fully_covered = FALSE
    /\ buffer_size_meters = 0
    /\ closed_polygon = NoPolygon
    /\ buffered_polygon = NoPolygon
    /\ simplified_polygon = NoPolygon
    /\ tolerance_idx = 0
    /\ session = 0
    /\ request_payload = NoPayload
    /\ start_extract_result = NoResult
    /\ http = NoHttp
    /\ cooldown = 0
    /\ warned = <<>>
    /\ answers = <<>>

input_vars == <<source, download_directory, regions_gdf>>
catalog_vars == <<extracts, extract_idx, catalog_queries, requested>>
orchestrator_vars == <<row_idx, polygons, paths, regions_mapping>>
poll_vars == <<extraction_uuid, status_check_url, status_complete,
               cells_total, nodes_total, elems_total,
               cells_prog, nodes_prog, elems_prog, pbar, reported_less>>
prepare_vars == <<is_fully_covered, buffer_size_meters, closed_polygon,
                  buffered_polygon, simplified_polygon, tolerance_idx,
                  iteration>>
submit_vars == <<session, request_payload, start_extract_result>>
call_vars == <<polygon, geometry_hash, boundary_polygon, poll_vars,
               prepare_vars, submit_vars>>
effect_vars == <<http, cooldown, warned, answers>>

-----------------------------------------------------------------------------
\* _download_pbf_files_for_polygons_from_protomaps (lines 114-128).

\* for region_id, row in regions_gdf.iterrows(): polygons = flatten_geometry(...)
NextRow ==
    /\ pc = "iterrows"
    /\ row_idx < Len(regions_gdf)
    /\ row_idx' = row_idx + 1
    /\ polygons' = flatten_geometry(regions_gdf[row_idx + 1].geometry)
    /\ paths' = <<>>
    /\ pc' = "comprehension"
    /\ UNCHANGED <<input_vars, catalog_vars, files, regions_mapping, call_vars, effect_vars>>

\* regions_mapping[region_id] = [...]: the comprehension is exhausted.
AssignRegion ==
    /\ pc = "comprehension"
    /\ Len(paths) = Len(polygons)
    /\ regions_mapping' =
           (regions_gdf[row_idx].region_id :> paths) @@ regions_mapping
    /\ pc' = "iterrows"
    /\ UNCHANGED <<input_vars, catalog_vars, files, row_idx, polygons, paths, call_vars,
                   effect_vars>>

\* return regions_mapping
ReturnMapping ==
    /\ pc = "iterrows"
    /\ row_idx = Len(regions_gdf)
    /\ pc' = "done"
    /\ UNCHANGED <<input_vars, catalog_vars, files, orchestrator_vars, call_vars, effect_vars>>

-----------------------------------------------------------------------------
\* _download_pbf_file_for_polygon_from_protomaps, lines 153-157: the hash,
\* the path, the cache lookup.  On a hit the call returns the path at once.

\* Mutation: the paths are collected in reverse call order.
CollectPathFront(collected, path) == <<path>> \o collected

\* The list comprehension collects the returned paths in call order.
CollectPath(collected, path) == Append(collected, path)

StartPolygonCall ==
    /\ pc = "comprehension"
    /\ Len(paths) < Len(polygons)
    /\ LET p == polygons[Len(paths) + 1]
           h == CallGeometryHash(p)
           pbf_file_path == PbfFilePath(download_directory, h)
       IN  /\ http' = NoHttp
           /\ cooldown' = 0
           /\ warned' = <<>>
           /\ answers' = <<>>
           /\ IF pbf_file_path \in files
              THEN /\ paths' = CollectPath(paths, pbf_file_path)
                   /\ pc' = "comprehension"
                   /\ UNCHANGED call_vars
              ELSE /\ polygon' = p
                   /\ geometry_hash' = h
                   /\ is_fully_covered' = FALSE
                   /\ buffer_size_meters' = BufferStep
                   /\ iteration' = 1
                   /\ pc' = "buffer"
                   /\ UNCHANGED <<paths, boundary_polygon, poll_vars,
                                  submit_vars, closed_polygon,
                                  buffered_polygon, simplified_polygon,
                                  tolerance_idx>>
    /\ UNCHANGED <<input_vars, catalog_vars, files, row_idx, polygons, regions_mapping>>

-----------------------------------------------------------------------------
\* simplify_polygon_with_buffer (geometry.py 113-140) with simplify_polygon
\* (143-170) inlined, one action per step of the two loops.

\* while not is_fully_covered
LoopContinues(covered) == ~covered

\* Mutation: the coverage check with its operands exchanged.
CoverageCheckReversed(original, closed) == covered_by(closed, original)

\* is_fully_covered = polygon.covered_by(closed_polygon)
CoverageCheck(original, closed) == covered_by(original, closed)

\* Mutation: the buffer doubles from one iteration to the next.
NextBufferSizeDoubled(meters) == meters * 2

\* buffer_size_meters += 50
NextBufferSize(meters) == meters + BufferStep

\* Leaving an iteration: buffer_size_meters += 50, then the loop test.  When
\* the loop ends the function returns closed_polygon to line 157 and its
\* locals are gone.
EndIteration(covered, closed) ==
    /\ buffered_polygon' = NoPolygon
    /\ simplified_polygon' = NoPolygon
    /\ tolerance_idx' = 0
    /\ IF LoopContinues(covered)
       THEN /\ is_fully_covered' = covered
            /\ closed_polygon' = closed
            /\ buffer_size_meters' = NextBufferSize(buffer_size_meters)
            /\ iteration' = iteration + 1
            /\ pc' = "buffer"
            /\ UNCHANGED boundary_polygon
       ELSE /\ boundary_polygon' = closed
            /\ is_fully_covered' = FALSE
            /\ closed_polygon' = NoPolygon
            /\ buffer_size_meters' = 0
            /\ iteration' = 0
            /\ pc' = "send"

\* buffered_polygon = buffer_geometry(polygon, meters=buffer_size_meters);
\* simplify_polygon starts with simplified_polygon = polygon.
BufferPolygon ==
    /\ pc = "buffer"
    /\ \E npts \in BufferedCounts :
          /\ buffered_polygon' =
                 buffer_geometry(polygon, buffer_size_meters, npts)
          /\ simplified_polygon' = buffered_polygon'
    /\ tolerance_idx' = 1
    /\ pc' = "ladder"
    /\ UNCHANGED <<input_vars, catalog_vars, files, orchestrator_vars, polygon, geometry_hash,
                   boundary_polygon, poll_vars, submit_vars, is_fully_covered,
                   buffer_size_meters, closed_polygon, iteration, effect_vars>>

\* One pass of "for simplify_tolerance in SIMPLIFICATION_TOLERANCE_VALUES".
LadderStep ==
    /\ pc = "ladder"
    /\ \E shrink \in Shrinks, npts \in LadderCounts :
          LET candidate == Toposimplify(buffered_polygon, shrink, npts)
          IN  /\ simplified_polygon' = candidate
              /\ IF LadderBreaks(candidate) \/ tolerance_idx = NumTolerances
                 THEN /\ pc' = "fallbacks"
                      /\ tolerance_idx' = 0
                 ELSE /\ pc' = "ladder"
                      /\ tolerance_idx' = tolerance_idx + 1
    /\ UNCHANGED <<input_vars, catalog_vars, files, orchestrator_vars, polygon, geometry_hash,
                   boundary_polygon, poll_vars, submit_vars, is_fully_covered,
                   buffer_size_meters, closed_polygon, buffered_polygon,
                   iteration, effect_vars>>

\* The fallbacks of simplify_polygon and its return to line 134.
ApplyFallbacks ==
    /\ pc = "fallbacks"
    /\ \E hull_npts \in HullCounts :
          simplified_polygon' =
              Fallbacks(simplified_polygon, buffered_polygon, hull_npts)
    /\ pc' = "close"
    /\ UNCHANGED <<input_vars, catalog_vars, files, orchestrator_vars, polygon, geometry_hash,
                   boundary_polygon, poll_vars, submit_vars, is_fully_covered,
                   buffer_size_meters, closed_polygon, buffered_polygon,
                   tolerance_idx, iteration, effect_vars>>

\* closed_polygon = remove_interiors(simplified_polygon); the coverage
\* check; the end of the iteration.
CloseAndCheck ==
    /\ pc = "close"
    /\ LET closed == remove_interiors(simplified_polygon)
       IN  EndIteration(CoverageCheck(polygon, closed), closed)
    /\ UNCHANGED <<input_vars, catalog_vars, files, orchestrator_vars, polygon, geometry_hash,
                   poll_vars, submit_vars, effect_vars>>

\* except Exception: warnings.warn(...).  Any statement of the try block
\* may raise; the names it had not assigned yet keep their values.
RaiseInIteration ==
    /\ pc \in {"buffer", "ladder", "fallbacks", "close"}
    /\ buffer_size_meters <= MaxRaisingIters * BufferStep
    /\ warned' = Append(warned, "Error while simplifying polygon.")
    /\ \E closed \in IF pc = "close"
                    THEN {closed_polygon, remove_interiors(simplified_polygon)}
                    ELSE {closed_polygon} :
          EndIteration(is_fully_covered, closed)
    /\ UNCHANGED <<input_vars, catalog_vars, files, orchestrator_vars, polygon, geometry_hash,
                   poll_vars, submit_vars, http, cooldown, answers>>

-----------------------------------------------------------------------------
\* _send_first_request (lines 218-260).

\* What the service may answer to the job-start POST: the HTTP status and
\* the JSON object, as the set of its keys and the value of "errors".
ErrorLists == { <<>>, <<"rate limited">>, <<"invalid geometry">>,
                <<"invalid geometry", "rate limited">> }

\* An answer without "errors", one with it, and the error pages.
PostResponses ==
    { [status |-> 200, keys |-> ks, errors |-> <<>>] :
        ks \in { {}, {"uuid", "url"}, {"uuid"}, {"url"} } }
    \cup { [status |-> 200, keys |-> ks, errors |-> es] :
             ks \in { {"errors"}, {"errors", "uuid", "url"} },
             es \in ErrorLists }
    \cup { [status |-> 500, keys |-> {}, errors |-> <<>>],
           [status |-> 429, keys |-> {"errors"}, errors |-> <<"rate limited">>] }

Range(f) == { f[i] : i \in DOMAIN f }

\* Mutation: the status of the answer is not looked at.
NeverRaisesForStatus(resp) == FALSE

\* start_extract_request.raise_for_status()
RaisesForStatus(resp) == resp.status < 200 \/ resp.status >= 300

\* errors = result.get("errors"); errors and "rate limited" in errors
IsRateLimited(result) ==
    /\ "errors" \in result.keys
    /\ result.errors # <<>>
    /\ "rate limited" \in Range(result.errors)

\* A rate-limited answer the client accepts as such.
RateLimitedResponse(resp) == ~RaisesForStatus(resp) /\ IsRateLimited(resp)

\* Mutation: the name is the hash of the prepared boundary.
SubmittedNameOfBoundary(original_hash, boundary) == _get_geometry_hash(boundary)

\* The name the caller hands over with the boundary (lines 160-162).
SubmittedName(original_hash, boundary) == original_hash

RequestPayload(geometry_geojson, name) ==
    [region |-> [type |-> "geojson", data |-> geometry_geojson], name |-> name]

\* Mutation: the cooldown is waited after every answer.
CooldownAlways(result) == CooldownSeconds

\* sleep(300) after the warning.
CooldownAfter(result) == IF IsRateLimited(result) THEN CooldownSeconds ELSE 0

\* One pass of "while not successful_request": a new session, the token
\* GET, the POST, raise_for_status, the rate-limit test.
SendFirstRequestIter ==
    /\ pc = "send"
    /\ \E has_cookie \in BOOLEAN, resp \in PostResponses :
          /\ RateLimitedResponse(resp) => http.post < MaxRateLimited
          /\ session' = session + 1
          /\ IF ~has_cookie
             THEN \* req.cookies["csrftoken"] raises KeyError
                  /\ http' = [http EXCEPT !.session = @ + 1, !.token_get = @ + 1]
                  /\ pc' = "raised"
                  /\ UNCHANGED <<request_payload, start_extract_result,
                                 cooldown, warned, answers>>
             ELSE /\ http' = [http EXCEPT !.session = @ + 1,
                                          !.token_get = @ + 1,
                                          !.post = @ + 1]
                  /\ request_payload' =
                         RequestPayload(mapping(boundary_polygon),
                                        SubmittedName(geometry_hash,
                                                      boundary_polygon))
                  /\ answers' = Append(answers, resp)
                  /\ IF RaisesForStatus(resp)
                     THEN /\ pc' = "raised"
                          /\ UNCHANGED <<start_extract_result, cooldown, warned>>
                     ELSE /\ start_extract_result' = resp
                          /\ cooldown' = cooldown + CooldownAfter(resp)
                          /\ IF IsRateLimited(resp)
                             THEN /\ warned' = Append(warned,
                                        "Rate limited. Waiting 60 seconds.")
                                  /\ pc' = "send"
                             ELSE /\ pc' = "sent"
                                  /\ UNCHANGED warned
    /\ UNCHANGED <<input_vars, catalog_vars, files, orchestrator_vars, polygon, geometry_hash,
                   boundary_polygon, poll_vars, prepare_vars>>

-----------------------------------------------------------------------------
\* _download_pbf_file_for_polygon_from_protomaps, lines 164-175: reading the
\* job out of the answer, then the new progress bar.

\* Mutation: only the uuid is read in the try block.
MissingUuidOnly(result) == "uuid" \notin result.keys

\* start_extract_result["uuid"] or start_extract_result["url"] raises
MissingJobKey(result) == ~({"uuid", "url"} \subseteq result.keys)

ReadStartResult ==
    /\ pc = "sent"
    /\ IF MissingJobKey(start_extract_result)
       THEN \* warnings.warn(json.dumps(start_extract_result)); raise
            /\ warned' = Append(warned, "start_extract_result")
            /\ pc' = "raised"
            /\ UNCHANGED <<poll_vars, boundary_polygon, request_payload, answers>>
       ELSE /\ extraction_uuid' = "uuid"
            /\ status_check_url' = "url"
            /\ pbar' = NewPbar
            /\ status_complete' = FALSE
            /\ cells_total' = 0
            /\ nodes_total' = 0
            /\ elems_total' = 0
            /\ reported_less' = FALSE
            /\ pc' = "poll"
            \* the boundary and the payload are not read again
            /\ boundary_polygon' = NoPolygon
            /\ request_payload' = NoPayload
            /\ answers' = <<>>
            /\ UNCHANGED <<cells_prog, nodes_prog, elems_prog, warned>>
    /\ UNCHANGED <<input_vars, catalog_vars, files, orchestrator_vars, polygon, geometry_hash,
                   prepare_vars, session,
                   start_extract_result, http, cooldown>>

-----------------------------------------------------------------------------
\* The poll loop (lines 176-209) and the artifact download (211-216).

\* A status answer: every field is optional.
StatusResponse(complete, ct, cp, nt, np, et, ep) ==
    [Complete |-> complete, CellsTotal |-> ct, CellsProg |-> cp,
     NodesTotal |-> nt, NodesProg |-> np, ElemsTotal |-> et, ElemsProg |-> ep]

CompleteValues == {"absent", "false", "true"}
TotalValues == {NoNumber, 1, 2}
ProgValues == {NoNumber, 0, 1}

\* Every answer over the small value sets.
StatusResponses ==
    { StatusResponse(c, ct, cp, nt, np, et, ep) :
        c \in CompleteValues,
        ct \in TotalValues, cp \in ProgValues,
        nt \in TotalValues, np \in ProgValues,
        et \in TotalValues, ep \in ProgValues }

\* A handful of answers for the runs over whole frames.
FewStatusResponses ==
    { StatusResponse("absent", NoNumber, NoNumber, NoNumber, NoNumber, NoNumber, NoNumber),
      StatusResponse("absent", 2, 1, NoNumber, NoNumber, NoNumber, NoNumber),
      StatusResponse("false", 2, 0, 1, 0, NoNumber, NoNumber),
      StatusResponse("false", 1, 1, 1, 1, 1, 1),
      StatusResponse("true", 2, 2, 1, 1, 2, 1),
      StatusResponse("true", NoNumber, NoNumber, NoNumber, NoNumber, NoNumber, NoNumber) }

\* dict.get(key, default) of a number
GetNumber(value, default) == IF value = NoNumber THEN default ELSE value

\* status_response.get("Complete", False)
GetComplete(r) == r.Complete = "true"

Max(a, b) == IF a >= b THEN a ELSE b

\* Mutation: the total is the one the latest answer reports.
RunningTotalLatest(total, reported) == GetNumber(reported, 0)

\* cells_total = max(cells_total, status_response.get("CellsTotal", 0))
RunningTotal(total, reported) == Max(total, GetNumber(reported, 0))

\* Mutation: an absent progress is read as 0.
PhaseUnfinishedAbsentAsZero(total, prog) ==
    total > 0 /\ GetNumber(prog, 0) < total

\* total > 0 and prog is not None and prog < total
PhaseUnfinished(total, prog) == total > 0 /\ prog # NoNumber /\ prog < total

\* Mutation: the test for Nodes comes before the test for Cells.
ActivePhaseNodesFirst(ct, cp, nt, np, et, ep) ==
    IF PhaseUnfinished(nt, np) THEN "Nodes"
    ELSE IF PhaseUnfinished(ct, cp) THEN "Cells"
    ELSE IF PhaseUnfinished(et, ep) THEN "Elements"
    ELSE "none"

\* The branch of the if/elif chain taken (lines 187-207).
ActivePhase(ct, cp, nt, np, et, ep) ==
    IF PhaseUnfinished(ct, cp) THEN "Cells"
    ELSE IF PhaseUnfinished(nt, np) THEN "Nodes"
    ELSE IF PhaseUnfinished(et, ep) THEN "Elements"
    ELSE "none"

\* Mutation: the progress of the earlier phases is added, not their totals.
DisplayedProgressOfProgs(ct, cp, nt, np, et, ep) ==
    LET phase == ActivePhase(ct, cp, nt, np, et, ep)
    IN  IF phase = "Cells" THEN cp
        ELSE IF phase = "Nodes" THEN GetNumber(cp, 0) + np
        ELSE IF phase = "Elements" THEN GetNumber(cp, 0) + GetNumber(np, 0) + ep
        ELSE ct + nt + et

\* pbar.n of the branch taken.
DisplayedProgress(ct, cp, nt, np, et, ep) ==
    LET phase == ActivePhase(ct, cp, nt, np, et, ep)
    IN  IF phase = "Cells" THEN cp
        ELSE IF phase = "Nodes" THEN ct + np
        ELSE IF phase = "Elements" THEN ct + nt + ep
        ELSE ct + nt + et

\* Mutation: the total of the elements is left out.
DisplayedTotalWithoutElements(ct, nt, et) == ct + nt

\* pbar.total, the same in every branch.
DisplayedTotal(ct, nt, et) == ct + nt + et

\* self._PBAR_FORMAT.format(region_id, polygon_id, phase); the branch without
\* an active phase leaves the description as it was.
Description(old, region_id, polygon_id, phase) ==
    IF phase = "none" THEN old ELSE <<region_id, polygon_id, phase>>

\* The answer r reports a total below the one tracked so far (an absent
\* total is read as 0, line 179).
ReportsLess(r) ==
    \/ GetNumber(r.CellsTotal, 0) < cells_total
    \/ GetNumber(r.NodesTotal, 0) < nodes_total
    \/ GetNumber(r.ElemsTotal, 0) < elems_total

\* Mutation: the loop test without its negation.
PollLoopInverted(complete) == complete

\* while not status_response.get("Complete", False)
PollLoopContinues(complete) == ~complete

\* One pass of the poll loop on the answer r.
PollStep(r) ==
    /\ pc = "poll"
    /\ PollLoopContinues(status_complete)
    /\ ~GetComplete(r) => http.status_get < MaxIncompletePolls
    /\ http' = [http EXCEPT !.status_get = @ + 1]
    /\ status_complete' = GetComplete(r)
    /\ cells_total' = RunningTotal(cells_total, r.CellsTotal)
    /\ nodes_total' = RunningTotal(nodes_total, r.NodesTotal)
    /\ elems_total' = RunningTotal(elems_total, r.ElemsTotal)
    /\ reported_less' = (reported_less \/ ReportsLess(r))
    /\ cells_prog' = r.CellsProg
    /\ nodes_prog' = r.NodesProg
    /\ elems_prog' = r.ElemsProg
    /\ pbar' =
         [n |-> DisplayedProgress(cells_total', cells_prog', nodes_total',
                                  nodes_prog', elems_total', elems_prog'),
          total |-> DisplayedTotal(cells_total', nodes_total', elems_total'),
          desc |-> Description(pbar.desc, regions_gdf[row_idx].region_id,
                       Len(paths) + 1,
                       ActivePhase(cells_total', cells_prog', nodes_total',
                                   nodes_prog', elems_total', elems_prog'))]
    /\ UNCHANGED <<input_vars, catalog_vars, files, orchestrator_vars, polygon, geometry_hash,
                   boundary_polygon, extraction_uuid, status_check_url, prepare_vars,
                   submit_vars, cooldown, warned, answers, pc>>

Poll == \E r \in FewStatusResponses : PollStep(r)

PollAny == \E r \in StatusResponses : PollStep(r)

\* download_file(url, fname): the artifact is written to fname.
download_file(fs, fname) == fs \cup {fname}

\* Mutation: the artifact is stored under the job's uuid.
ArtifactPathByUuid(directory, hash) == PbfFilePath(directory, "uuid")

\* The file the artifact is stored in (pbf_file_path, lines 154 and 213).
ArtifactPath(directory, hash) == PbfFilePath(directory, hash)

\* After the loop: download_file(...); return pbf_file_path.
DownloadArtifact ==
    /\ pc = "poll"
    /\ ~PollLoopContinues(status_complete)
    /\ LET pbf_file_path == ArtifactPath(download_directory, geometry_hash)
       IN  /\ files' = download_file(files, pbf_file_path)
           /\ paths' = CollectPath(paths, pbf_file_path)
    /\ http' = [http EXCEPT !.artifact_get = @ + 1]
    /\ pc' = "comprehension"
    /\ CallLocalsCleared
    /\ UNCHANGED <<input_vars, catalog_vars, row_idx, polygons, regions_mapping, cooldown,
                   warned, answers>>

-----------------------------------------------------------------------------
\* download_pbf_files_for_regions_gdf (lines 84-91) and
\* _download_pbf_files_for_polygons_from_existing_extracts (93-112).

\* Mutation: every source is served by the extraction service.
UsesProtomapsAlways(src) == TRUE

\* if self.source == "protomaps"
UsesProtomaps(src) == src = "protomaps"

\* elif self.source in ["geofabrik", "openstreetmap_fr"]
UsesExistingExtracts(src) == src \in {"geofabrik", "openstreetmap_fr"}

\* The branch of the public method taken.
Dispatch ==
    /\ pc = "dispatch"
    /\ UsesProtomaps(source) \/ UsesExistingExtracts(source)
    /\ pc' = IF UsesProtomaps(source) THEN "iterrows" ELSE "catalog"
    /\ UNCHANGED <<input_vars, catalog_vars, files, orchestrator_vars,
                   call_vars, effect_vars>>

\* regions_gdf.geometry.unary_union: the polygons of all rows as one
\* geometry, here the set of them.
UnaryUnion(frame) ==
    UNION { Range(flatten_geometry(frame[i].geometry)) : i \in DOMAIN frame }

\* The catalog function the source selects (lines 100-103).
CatalogOf(src) ==
    IF src = "geofabrik" THEN "find_smallest_containing_geofabrik_extracts_urls"
    ELSE "find_smallest_containing_openstreetmap_fr_extracts_urls"

\* The union is taken and the catalog is asked for the extracts.
QueryCatalog ==
    /\ pc = "catalog"
    /\ LET unary_union_geometry == UnaryUnion(regions_gdf)
       IN  /\ catalog_queries' =
                  Append(catalog_queries,
                         [catalog |-> CatalogOf(source),
                          geometry |-> unary_union_geometry])
           /\ \E found \in CatalogAnswers :
                 /\ found = <<>> => unary_union_geometry = {}
                 /\ extracts' = found
    /\ extract_idx' = 0
    /\ pc' = "extracts"
    /\ UNCHANGED <<input_vars, requested, files, orchestrator_vars, call_vars,
                   effect_vars>>

\* download_file(..., force_download=False) keeps a file that exists.
SkipsDownload(fs, fname, force_download) == fname \in fs /\ ~force_download

\* One pass of "for extract in extracts".
FetchExtract ==
    /\ pc = "extracts"
    /\ extract_idx < Len(extracts)
    /\ LET extract == extracts[extract_idx + 1]
           pbf_file_path == ExtractPath(download_directory, extract.id)
       IN  /\ requested' =
                  Append(requested, [url |-> extract.url,
                                     fname |-> pbf_file_path,
                                     force_download |-> FALSE])
           /\ IF SkipsDownload(files, pbf_file_path, FALSE)
              THEN UNCHANGED <<files, http>>
              ELSE /\ files' = download_file(files, pbf_file_path)
                   /\ http' = [http EXCEPT !.artifact_get = @ + 1]
           /\ regions_mapping' =
                  (extract.id :> <<pbf_file_path>>) @@ regions_mapping
    /\ extract_idx' = extract_idx + 1
    /\ UNCHANGED <<input_vars, extracts, catalog_queries, row_idx, polygons,
                   paths, call_vars, cooldown, warned, answers, pc>>

\* return regions_mapping (line 112)
ReturnExtractsMapping ==
    /\ pc = "extracts"
    /\ extract_idx = Len(extracts)
    /\ pc' = "done"
    /\ UNCHANGED <<input_vars, catalog_vars, files, orchestrator_vars,
                   call_vars, effect_vars>>

-----------------------------------------------------------------------------
\* The run over a whole frame.

Next ==
    \/ Dispatch
    \/ QueryCatalog
    \/ FetchExtract
    \/ ReturnExtractsMapping
    \/ NextRow
    \/ StartPolygonCall
    \/ BufferPolygon
    \/ LadderStep
    \/ ApplyFallbacks
    \/ CloseAndCheck
    \/ RaiseInIteration
    \/ SendFirstRequestIter
    \/ ReadStartResult
    \/ Poll
    \/ DownloadArtifact
    \/ AssignRegion
    \/ ReturnMapping

Spec == Init /\ [][Next]_vars

-----------------------------------------------------------------------------
\* The poll loop of one job on every status answer.  The run starts where
\* the call for the single polygon of a one-row frame enters the loop
\* (line 176): the cache missed, the first buffer covered, the first
\* submission was accepted.

InitPoll ==
    /\ source = "protomaps"
    /\ extracts = <<>>
    /\ extract_idx = 0
    /\ catalog_queries = <<>>
    /\ requested = <<>>
    /\ iteration = 0
    /\ reported_less = FALSE
    /\ download_directory = "files"
    /\ files = {}
    /\ regions_gdf = <<Row("r1", Single(PolygonA))>>
    /\ row_idx = 1
    /\ polygons = <<PolygonA>>
    /\ paths = <<>>
    /\ regions_mapping = <<>>
    /\ pc = "poll"
    /\ polygon = PolygonA
    /\ geometry_hash = CallGeometryHash(PolygonA)
    /\ boundary_polygon = NoPolygon
    /\ extraction_uuid = "uuid"
    /\ status_check_url = "url"
    /\ status_complete = FALSE
    /\ cells_total = 0
    /\ nodes_total = 0
    /\ elems_total = 0
    /\ cells_prog = NoNumber
    /\ nodes_prog = NoNumber
    /\ elems_prog = NoNumber
    /\ pbar = NewPbar
    /\ is_fully_covered = FALSE
    /\ buffer_size_meters = 0
    /\ closed_polygon = NoPolygon
    /\ buffered_polygon = NoPolygon
    /\ simplified_polygon = NoPolygon
    /\ tolerance_idx = 0
    /\ session = 1
    /\ request_payload = NoPayload
    /\ start_extract_result =
           [status |-> 200, keys |-> {"uuid", "url"}, errors |-> <<>>]
    /\ http = [NoHttp EXCEPT !.session = 1, !.token_get = 1, !.post = 1]
    /\ cooldown = 0
    /\ warned = <<>>
    /\ answers = <<>>

NextPoll ==
    \/ PollAny
    \/ DownloadArtifact
    \/ AssignRegion
    \/ ReturnMapping

SpecPoll == InitPoll /\ [][NextPoll]_vars

-----------------------------------------------------------------------------
\* Properties.

Last(q) == q[Len(q)]

\* The polygon calls that have returned: row i, part j.
ReturnedCalls ==
    UNION { { <<i, j>> : j \in 1..Len(flatten_geometry(regions_gdf[i].geometry)) } :
              i \in 1..Len(regions_gdf) }
    \cap { c \in (1..Len(regions_gdf)) \X (1..Len(polygons)) :
             \/ regions_gdf[c[1]].region_id \in DOMAIN regions_mapping
             \/ c[1] = row_idx /\ pc # "iterrows" /\ c[2] <= Len(paths) }

CallPolygon(c) == flatten_geometry(regions_gdf[c[1]].geometry)[c[2]]

\* The path call c returned.
ReturnedPath(c) ==
    IF regions_gdf[c[1]].region_id \in DOMAIN regions_mapping
    THEN regions_mapping[regions_gdf[c[1]].region_id][c[2]]
    ELSE paths[c[2]]

\* A call is about to start for a polygon an earlier call has returned for.
SecondCallStarts ==
    /\ pc = "comprehension"
    /\ Len(paths) < Len(polygons)
    /\ \E c \in ReturnedCalls : CallPolygon(c) = polygons[Len(paths) + 1]

\* C1: a polygon call for a polygon that an earlier call of the same run has
\* returned for makes no HTTP request of any kind, creates no file and
\* returns, in that one step, the path the earlier call returned.
C1_CacheIdempotence ==
    [][SecondCallStarts =>
         /\ pc' = "comprehension"
         /\ http' = NoHttp
         /\ files' = files
         /\ Len(paths') = Len(paths) + 1
         /\ \A c \in ReturnedCalls :
               CallPolygon(c) = polygons[Len(paths) + 1]
                   => Last(paths') = ReturnedPath(c)]_vars

\* C1 witness: the third part of a row repeats its second part and its call
\* has returned without a request, with the path of the second.
C1_Witness ==
    /\ pc = "comprehension"
    /\ Len(paths) = 3
    /\ polygons[2] = polygons[3]
    /\ paths[2] = paths[3]
    /\ http = NoHttp

\* C2 (as claimed): from one poll of a job to the next, the displayed
\* progress pbar.n does not decrease.
C2_ProgressNeverDecreases ==
    [][(pc = "poll" /\ http.status_get >= 1
          /\ http'.status_get = http.status_get + 1)
         => pbar'.n >= pbar.n]_vars

\* What the claims call a rate-limited answer to the POST.
AnswerRateLimited(a) ==
    /\ a.status = 200
    /\ "errors" \in a.keys
    /\ \E i \in DOMAIN a.errors : a.errors[i] = "rate limited"

FromGeoJson(d) == Poly(d.coordinates[1], d.coordinates[2], d.points, d.holes)

\* C4: a boundary that has been POSTed is the polygon
\* simplify_polygon_with_buffer returned, and it covers the polygon of the
\* call.
C4_CoverageBeforeSend ==
    request_payload # NoPayload =>
        /\ request_payload.region.data = mapping(boundary_polygon)
        /\ covered_by(polygon, FromGeoJson(request_payload.region.data))

\* C4 witness: a boundary was POSTed after an iteration of the buffer loop
\* had raised.
C4_Witness ==
    /\ request_payload # NoPayload
    /\ warned # <<>>
    /\ warned[1] = "Error while simplifying polygon."
    /\ covered_by(polygon, boundary_polygon)

\* C5: a status GET is issued only while the last answer did not carry
\* Complete = true; from the loop with such an answer the only step is
\* another status GET; the artifact is requested only after an answer with
\* Complete = true, that is after at least one status GET.
C5_CompleteIsSoleExit ==
    [][/\ http'.status_get # http.status_get => ~status_complete
       /\ (pc = "poll" /\ ~status_complete) =>
              /\ pc' = "poll"
              /\ http'.status_get = http.status_get + 1
              /\ http'.artifact_get = http.artifact_get
       /\ http'.artifact_get # http.artifact_get =>
              /\ status_complete
              /\ http.status_get >= 1]_vars

\* C5 witness: an answer reported every phase at 100% without Complete and
\* the loop polled again.
C5_Witness ==
    /\ pc = "poll"
    /\ http.status_get = 2
    /\ ~status_complete
    /\ pbar.total > 0
    /\ pbar.n = pbar.total
    /\ cells_prog = cells_total
    /\ nodes_prog = nodes_total
    /\ elems_prog = elems_total

\* C6: the mapping holds, under the id of each row it has a key for, one
\* path per part of the row's flattened geometry, the i-th being the cache
\* path of the hash of the i-th part; when a run against the extraction
\* service returns, every region id of the frame is a key.
C6_FanOut ==
    /\ \A i \in 1..Len(regions_gdf) :
          LET id == regions_gdf[i].region_id
              parts == flatten_geometry(regions_gdf[i].geometry)
          IN  id \in DOMAIN regions_mapping =>
                  /\ Len(regions_mapping[id]) = Len(parts)
                  /\ \A k \in 1..Len(parts) :
                        regions_mapping[id][k] =
                            PbfFilePath(download_directory,
                                        _get_geometry_hash(parts[k]))
    /\ pc = "done" /\ source = "protomaps" =>
          \A i \in 1..Len(regions_gdf) :
              regions_gdf[i].region_id \in DOMAIN regions_mapping

\* C6 witness: the run returned a mapping with the three paths of a nested
\* three-part geometry, two of them different.
C6_Witness ==
    /\ pc = "done"
    /\ "r1" \in DOMAIN regions_mapping
    /\ Len(regions_mapping["r1"]) = 3
    /\ regions_mapping["r1"][1] # regions_mapping["r1"][2]

\* C7: the polygon simplify_polygon returns, the closed polygon and the
\* boundary handed to the submission have at most 1000 exterior points.
C7_VertexBound ==
    /\ pc = "close" => simplified_polygon.npts <= PointLimit
    /\ closed_polygon.npts <= PointLimit
    /\ boundary_polygon.npts <= PointLimit

\* C7 witness: simplify_polygon returned the bounding rectangle, which only
\* the last fallback produces.
C7_Witness ==
    /\ pc = "close"
    /\ simplified_polygon.npts = RectanglePoints

\* C8: once the last answer to the POST is a non-2xx answer without a
\* rate-limit indication, the call has raised: no cooldown was waited for
\* that answer, no further POST was sent, no status was polled and no
\* artifact was downloaded.
C8_TransportErrorFatal ==
    (/\ answers # <<>>
     /\ ~(Last(answers).status \in 200..299)
     /\ ~(\E i \in DOMAIN Last(answers).errors :
              Last(answers).errors[i] = "rate limited"))
    => /\ pc = "raised"
       /\ http.post = Len(answers)
       /\ cooldown = (Len(answers) - 1) * CooldownSeconds
       /\ http.status_get = 0
       /\ http.artifact_get = 0

\* C8 witness: the second POST of a call was answered 500 and the call
\* raised.
C8_Witness ==
    /\ pc = "raised"
    /\ Len(answers) = 2
    /\ answers[2].status = 500

\* C9: when _send_first_request has returned an answer without uuid or
\* without url, the next step warns with that answer and raises; it polls
\* nothing, downloads nothing and creates no file, and nothing happens
\* after the raise.
C9_MalformedResponse ==
    [][/\ (pc = "sent" /\ ~({"uuid", "url"} \subseteq start_extract_result.keys))
            => /\ pc' = "raised"
               /\ warned' = Append(warned, "start_extract_result")
               /\ http' = http
               /\ files' = files
       /\ pc = "raised" => (pc' = "raised" /\ http' = http /\ files' = files)]_vars

\* C9 witness: the answer had a uuid and no url, and the call raised after
\* the warning.
C9_Witness ==
    /\ pc = "raised"
    /\ start_extract_result.keys = {"uuid"}
    /\ warned # <<>>
    /\ Last(warned) = "start_extract_result"
    /\ PbfFilePath(download_directory, geometry_hash) \notin files

\* The polygons of the frame.
FramePolygons ==
    UNION { Range(flatten_geometry(regions_gdf[i].geometry)) :
              i \in 1..Len(regions_gdf) }

C11_CacheUnderFailure ==
    [][/\ files \subseteq files'
       /\ (source = "protomaps" /\ files' # files) =>
             /\ pc = "poll"
             /\ status_complete
             /\ geometry_hash = _get_geometry_hash(polygon)
             /\ http'.artifact_get = http.artifact_get + 1
             /\ files' = files \cup
                    {PbfFilePath(download_directory, geometry_hash)}]_vars

\* C11 witness: the second call of a run was rate-limited, waited and
\* raised on a malformed answer; the file the first call stored after its
\* job completed is the only one.
C11_Witness ==
    /\ pc = "raised"
    /\ Len(paths) = 1
    /\ files = {paths[1]}
    /\ cooldown > 0
    /\ Last(warned) = "start_extract_result"

\* An answer to the POST that raise_for_status() rejects.
AnswerTransportError(a) == ~(a.status \in 200..299)

\* The current polygon call has met a fatal error: a transport error or a
\* malformed answer.
FatalErrorInCall ==
    \/ answers # <<>> /\ AnswerTransportError(Last(answers))
    \/ warned # <<>> /\ Last(warned) = "start_extract_result"

\* The exception has left download_pbf_files_for_regions_gdf: the run is
\* over and nothing is returned.
RunAborted == pc = "raised"

\* C12 (as claimed): a fatal error in the call for one polygon, after a
\* region was processed without error, does not abort the run.
C12_PerUnitErrorIsolation ==
    (FatalErrorInCall /\ DOMAIN regions_mapping # {}) => ~RunAborted

\* <download directory>/<id>.osm.pbf
ClaimedExtractPath(id) == <<download_directory, id, ".osm.pbf">>

\* The catalog function of the run's source.
ClaimedCatalog ==
    IF source = "geofabrik"
    THEN "find_smallest_containing_geofabrik_extracts_urls"
    ELSE "find_smallest_containing_openstreetmap_fr_extracts_urls"

C14_TotalsRunningMaxima ==
    [][(pc = "poll" /\ http'.status_get = http.status_get + 1) =>
          /\ cells_total' >= cells_total
          /\ nodes_total' >= nodes_total
          /\ elems_total' >= elems_total
          /\ pbar'.total = cells_total' + nodes_total' + elems_total'
          /\ pbar'.total >= pbar.total]_vars

\* C14 witness: the second answer of a job reported a total below the one
\* tracked and the totals, each at the largest value reported, and their
\* sum are displayed.
C14_Witness ==
    /\ pc = "poll"
    /\ http.status_get = 2
    /\ reported_less
    /\ cells_total = 2
    /\ nodes_total = 2
    /\ elems_total = 2
    /\ pbar.total = 6

\* The first phase in the order Cells, Nodes, Elements that the test
\* unfinished(total, prog) holds for, or "none".
FirstPhase(unfinished(_, _)) ==
    IF unfinished(cells_total, cells_prog) THEN "Cells"
    ELSE IF unfinished(nodes_total, nodes_prog) THEN "Nodes"
    ELSE IF unfinished(elems_total, elems_prog) THEN "Elements"
    ELSE "none"

\* The description that names the given phase for the current call.
DescriptionNaming(phase) ==
    <<regions_gdf[row_idx].region_id, Len(paths) + 1, phase>>

\* The poll loop has taken an answer in.
Polled == pc = "poll" /\ http.status_get >= 1

\* Progress strictly below the total, an absent progress read as 0.
BelowTotalAbsentAsZero(total, prog) ==
    (IF prog = NoNumber THEN 0 ELSE prog) < total

\* C15 (as claimed): after a poll, with absent fields read as 0, the
\* description names the first phase whose progress is below its total.
C15_ActivePhaseAbsentAsZero ==
    (Polled /\ FirstPhase(BelowTotalAbsentAsZero) # "none") =>
        pbar.desc = DescriptionNaming(FirstPhase(BelowTotalAbsentAsZero))

\* Progress reported and strictly below the total.
BelowTotalWhenReported(total, prog) ==
    total > 0 /\ prog # NoNumber /\ prog < total

\* C15 (amended): after a poll the description names the first phase in
\* the order Cells, Nodes, Elements whose progress was reported by the
\* answer and is strictly below its running-maximum total; a phase whose
\* progress is absent is passed over, an absent total is read as 0.
C15_ActivePhaseReportedProgress ==
    (Polled /\ FirstPhase(BelowTotalWhenReported) # "none") =>
        pbar.desc = DescriptionNaming(FirstPhase(BelowTotalWhenReported))

\* C15 witness: the answer carried no CellsProg although cells are due, and
\* the description names Nodes.
C15_Witness ==
    /\ Polled
    /\ cells_total > 0
    /\ cells_prog = NoNumber
    /\ nodes_prog = 0
    /\ nodes_total = 1
    /\ pbar.desc = DescriptionNaming("Nodes")

\* A progress, an absent one read as 0.
ProgOrZero(prog) == IF prog = NoNumber THEN 0 ELSE prog

\* C16 (as claimed): after a poll with an active phase, pbar.n is the sum of
\* the progress of the phases before the active one plus the progress of
\* the active one, and pbar.total is the sum of the three totals.
C16_PrecedingProgressSummed ==
    LET phase == FirstPhase(BelowTotalWhenReported)
    IN  (Polled /\ phase # "none") =>
            /\ pbar.total = cells_total + nodes_total + elems_total
            /\ pbar.n =
                 IF phase = "Cells" THEN cells_prog
                 ELSE IF phase = "Nodes"
                      THEN ProgOrZero(cells_prog) + nodes_prog
                 ELSE ProgOrZero(cells_prog) + ProgOrZero(nodes_prog)
                          + elems_prog

\* C16 (amended): after a poll with an active phase, pbar.n is the sum of
\* the running-maximum totals of the phases before the active one plus the
\* progress of the active one, and pbar.total is the sum of the three
\* totals.
C16_PrecedingTotalsSummed ==
    LET phase == FirstPhase(BelowTotalWhenReported)
    IN  (Polled /\ phase # "none") =>
            /\ pbar.total = cells_total + nodes_total + elems_total
            /\ pbar.n =
                 IF phase = "Cells" THEN cells_prog
                 ELSE IF phase = "Nodes" THEN cells_total + nodes_prog
                 ELSE cells_total + nodes_total + elems_prog

\* C16 witness: Elements is active while the progress of Cells and of Nodes
\* differs from their totals, and pbar.n counts the two totals.
C16_Witness ==
    /\ Polled
    /\ FirstPhase(BelowTotalWhenReported) = "Elements"
    /\ cells_total = 2
    /\ cells_prog = NoNumber
    /\ nodes_total = 0
    /\ nodes_prog = 1
    /\ elems_prog = 1
    /\ pbar.n = 3
    /\ pbar.total = 4

\* C17 (as claimed): once the answer with Complete true has been taken in,
\* pbar.n = pbar.total.
C17_SaturationAtCompletion ==
    (pc = "poll" /\ status_complete) => pbar.n = pbar.total

\* The place in the order of the phase a description names; 0 for none.
PhaseRank(desc) ==
    IF desc = <<>> THEN 0
    ELSE IF desc[3] = "Cells" THEN 1
    ELSE IF desc[3] = "Nodes" THEN 2
    ELSE 3

\* C18 (as claimed): from one poll of a job to the next the phase named
\* never moves back in the order Cells, Nodes, Elements.
C18_PhaseNeverMovesBack ==
    [][(pc = "poll" /\ http'.status_get = http.status_get + 1) =>
          PhaseRank(pbar'.desc) >= PhaseRank(pbar.desc)]_vars

\* C18 (amended): the precedence Cells, Nodes, Elements holds within each
\* poll: after a poll the description names Nodes only if Cells is not
\* unfinished in that answer and Elements only if neither Cells nor Nodes
\* is; the answer with Complete is the last one polled.
C18_PrecedenceWithinPoll ==
    /\ Polled =>
          /\ PhaseRank(pbar.desc) >= 2 =>
                ~BelowTotalWhenReported(cells_total, cells_prog)
          /\ PhaseRank(pbar.desc) = 3 =>
                ~BelowTotalWhenReported(nodes_total, nodes_prog)
    /\ (pc = "poll" /\ status_complete) => ~ENABLED PollAny

\* C18 witness: the second answer of a job has Nodes unfinished and Cells
\* not, and Nodes is named.
C18_Witness ==
    /\ Polled
    /\ http.status_get = 2
    /\ cells_total = 1
    /\ cells_prog = 1
    /\ BelowTotalWhenReported(nodes_total, nodes_prog)
    /\ BelowTotalWhenReported(elems_total, elems_prog)
    /\ PhaseRank(pbar.desc) = 2

\* The buffer loop of simplify_polygon_with_buffer is running.
InBufferLoop == pc \in {"buffer", "ladder", "fallbacks", "close"}

\* The current iteration's polygon after simplifying and hole removal.
IterationPolygon == remove_interiors(simplified_polygon)

\* C19: in the i-th iteration of the buffer loop the buffer is 50*i meters
\* and the buffered polygon is the original moved outwards by it; an
\* iteration that raises issues the warning and is followed by iteration
\* i+1, as is one whose coverage check is false; the loop is left only from
\* an iteration whose coverage check is true, at the first such, and what
\* it returns is that iteration's polygon.
C19_BufferRetrySchedule ==
    [][/\ InBufferLoop =>
             /\ iteration >= 1
             /\ buffer_size_meters = 50 * iteration
             /\ pc # "buffer" =>
                   /\ buffered_polygon.lo = polygon.lo - iteration
                   /\ buffered_polygon.hi = polygon.hi + iteration
       /\ (InBufferLoop /\ warned' # warned) =>
             /\ warned' = Append(warned, "Error while simplifying polygon.")
             /\ pc' = "buffer"
             /\ iteration' = iteration + 1
       /\ (pc = "close" /\ warned' = warned) =>
             IF covered_by(polygon, IterationPolygon)
             THEN pc' = "send" /\ boundary_polygon' = IterationPolygon
             ELSE pc' = "buffer" /\ iteration' = iteration + 1
       /\ (InBufferLoop /\ pc' = "send") =>
             /\ pc = "close"
             /\ covered_by(polygon, IterationPolygon)
             /\ boundary_polygon' = IterationPolygon]_vars

\* C19 witness: the third iteration, with a buffer of 150 meters, follows
\* one iteration whose coverage check was false and one that raised, and
\* its polygon covers the original.
C19_Witness ==
    /\ pc = "close"
    /\ iteration = 3
    /\ buffer_size_meters = 150
    /\ Len(warned) = 1
    /\ covered_by(polygon, IterationPolygon)

\* C20: after every poll 0 <= pbar.n <= pbar.total, for the answers of the
\* model, whose counts are 0 or more.
C20_ProgressWithinTotal ==
    Polled => (0 <= pbar.n /\ pbar.n <= pbar.total)

\* C20 witness: an answer without any progress field leaves no phase active
\* and the bar shows the whole total.
C20_Witness ==
    /\ Polled
    /\ ~status_complete
    /\ cells_prog = NoNumber
    /\ nodes_prog = NoNumber
    /\ elems_prog = NoNumber
    /\ FirstPhase(BelowTotalWhenReported) = "none"
    /\ pbar.total = 3
    /\ pbar.n = 3

====
